---- MODULE Spec2Model ----
(***************************************************************************)
(* Fixed-point numbers with statically derived bit-width and shift (crate  *)
(* fp).  A value is a raw integer held in a W-bit container together with  *)
(* the const parameters of its type: BITS (b), SHIFT (s) and the           *)
(* signedness of the container (sg).  The crate instantiates one macro     *)
(* body per container width; the model instantiates the same body for the  *)
(* narrow widths in Widths so that every raw value can be enumerated.      *)
(***************************************************************************)
EXTENDS Integers

VARIABLES val, op, other, n, res

vars == <<val, op, other, n, res>>

(* ------------------------------ bounds --------------------------------- *)

\* Widest raw container of the model (the crate's are 8 .. 128 bits wide).
MaxBits == 4

\* Largest magnitude of a SHIFT parameter of the model.
MaxShift == 1

\* The raw container widths: the fp_impl!(FpI8, i8) ... instantiations.
Widths == {MaxBits - 1, MaxBits}

Shifts == (0 - MaxShift)..MaxShift

(* ------------------------ primitive integers --------------------------- *)

Pow2(k) == 2^k

\* <$T>::MIN and <$T>::MAX of a w-bit container.
TMin(w, sg) == IF sg THEN 0 - Pow2(w - 1) ELSE 0

TMax(w, sg) == IF sg THEN Pow2(w - 1) - 1 ELSE Pow2(w) - 1

InContainer(w, sg, x) == TMin(w, sg) <= x /\ x <= TMax(w, sg)

\* Two's-complement reduction of x into a w-bit container: the value of
\* `x as $T` and of the wrapping_* operations.
Wrap(w, sg, x) ==
    LET m == x % Pow2(w)
    IN  IF sg /\ m >= Pow2(w - 1) THEN m - Pow2(w) ELSE m

\* x >> k on a primitive: arithmetic for signed, logical for unsigned; both
\* are the floor of x / 2^k on the container's values.
Shr(x, k) == x \div Pow2(k)

\* Integer division of the primitives truncates toward zero.
TruncDiv(x, y) ==
    LET ax == IF x < 0 THEN 0 - x ELSE x
        ay == IF y < 0 THEN 0 - y ELSE y
        q  == ax \div ay
    IN  IF (x < 0) = (y < 0) THEN q ELSE 0 - q

(* ------------------------------ types ---------------------------------- *)

\* A type $Name<BITS, SHIFT> over a w-bit container of signedness sg.
Ty(w, sg, b, s) == [w |-> w, sg |-> sg, b |-> b, s |-> s]

\* const BITS: the assertion BITS <= <$T>::BITS; a type failing it does not
\* compile, so no operation producing it exists.
ValidTy(t) == t.b >= 0 /\ t.b <= t.w

Types == {Ty(w, sg, b, s) : w \in Widths, sg \in BOOLEAN, b \in 0..MaxBits, s \in Shifts}

ValidTypes == {t \in Types : ValidTy(t)}

\* Faulty variant of MIN: the BITS == 0 guard is dropped and the shift amount W is
\* masked to 0 as the hardware does.
MIN_NoZeroGuard(t) == Shr(TMin(t.w, t.sg), (t.w - t.b) % t.w)

\* const MIN: 0 when BITS == 0, else <$T>::MIN >> (<$T>::BITS - BITS).
MIN(t) == IF t.b = 0 THEN 0 ELSE Shr(TMin(t.w, t.sg), t.w - t.b)

\* const MAX: 0 when BITS == 0, else <$T>::MAX >> (<$T>::BITS - BITS).
MAX(t) == IF t.b = 0 THEN 0 ELSE Shr(TMax(t.w, t.sg), t.w - t.b)

(* ------------------------------ values --------------------------------- *)

\* new_unchecked: wraps the raw value, no check.
new_unchecked(t, x) == [w |-> t.w, sg |-> t.sg, b |-> t.b, s |-> t.s, raw |-> x]

TypeOf(v) == Ty(v.w, v.sg, v.b, v.s)

\* The placeholder for "no value".
NoVal == [w |-> 0, sg |-> FALSE, b |-> 0, s |-> 0, raw |-> 0]

Ok(v) == [kind |-> "Ok", v |-> v]

Fail(k) == [kind |-> k, v |-> NoVal]

NoRes == Fail("none")

\* Faulty variant of new: the upper comparison is off by one.
new_LooseUpper(t, x) ==
    IF x < MIN(t) THEN Fail("TooSmall")
    ELSE IF x > MAX(t) + 1 THEN Fail("TooLarge")
    ELSE Ok(new_unchecked(t, x))

\* Fp::new: the checked constructor.
new(t, x) ==
    IF x < MIN(t) THEN Fail("TooSmall")
    ELSE IF x > MAX(t) THEN Fail("TooLarge")
    ELSE Ok(new_unchecked(t, x))


(* ------------------------ checked arithmetic --------------------------- *)

\* The outcomes of a primitive `*` or unary `-` whose exact result is x: the
\* result itself when it fits the container; otherwise the build decides,
\* a panic with overflow checks on and the wrapped value with them off.
Arith(t, x) ==
    IF InContainer(t.w, t.sg, x)
    THEN {Ok(new_unchecked(t, x))}
    ELSE {Fail("Overflow"), Ok(new_unchecked(t, Wrap(t.w, t.sg, x)))}

\* The outcomes of a primitive x / y in the container of t: division by
\* zero and <$T>::MIN / -1 panic in every build.
Quot(t, x, y) ==
    IF y = 0 THEN {Fail("DivByZero")}
    ELSE IF t.sg /\ x = TMin(t.w, TRUE) /\ y = 0 - 1 THEN {Fail("Overflow")}
    ELSE {Ok(new_unchecked(t, TruncDiv(x, y)))}

(* ------------------------------ add_sub -------------------------------- *)

\* pub const fn max(a, b).
max(a, b) == IF a > b THEN a ELSE b

\* impl Add<$Name<B1, S>> for $Name<B0, S>: the output type.
AddTy(a0, a1) == Ty(a0.w, a0.sg, max(a0.b, a1.b) + 1, a0.s)

\* Faulty variant of add: the output keeps max(B0, B1) bits, without the carry bit.
add_NoCarryBit(a0, a1) ==
    Ok(new_unchecked(Ty(a0.w, a0.sg, max(a0.b, a1.b), a0.s),
                     Wrap(a0.w, a0.sg, a0.raw + a1.raw)))

\* Add::add: self.raw().wrapping_add(other.raw()).
add(a0, a1) == Ok(new_unchecked(AddTy(a0, a1), Wrap(a0.w, a0.sg, a0.raw + a1.raw)))

\* impl Sub: the output type is $Iname<max(B0, B1) + 1, S>, always signed.
SubTy(a0, a1) == Ty(a0.w, TRUE, max(a0.b, a1.b) + 1, a0.s)

\* Faulty variant of sub: the difference is not cast to the signed raw type.
sub_NoCast(a0, a1) ==
    Ok(new_unchecked(SubTy(a0, a1), Wrap(a0.w, a0.sg, a0.raw - a1.raw)))

\* Sub::sub: self.raw().wrapping_sub(other.raw()) as the signed raw type.
sub(a0, a1) ==
    Ok(new_unchecked(SubTy(a0, a1), Wrap(a0.w, TRUE, Wrap(a0.w, a0.sg, a0.raw - a1.raw))))

\* impl Neg: the output type is $Iname<B + 1, S>, always signed.
NegTy(a0) == Ty(a0.w, TRUE, a0.b + 1, a0.s)

\* Neg::neg: -(self.raw() as the signed raw type).
neg(a0) == Arith(NegTy(a0), 0 - Wrap(a0.w, TRUE, a0.raw))

(* ------------------------------ mul_div -------------------------------- *)

\* impl Mul: $Name<B0 + B1, S0 + S1> for equal signedness, $Iname<B0 + B1,
\* S0 + S1> for $Iname * $Uname and for $Uname * $Iname.
MulTy(a0, a1) ==
    IF a0.sg = a1.sg
    THEN Ty(a0.w, a0.sg, a0.b + a1.b, a0.s + a1.s)
    ELSE Ty(a0.w, TRUE, a0.b + a1.b, a0.s + a1.s)

\* The operand as a mixed-signedness impl reads it: the unsigned operand is
\* cast, `raw() as <Self::Output as Num>::Raw`, to the signed raw type.
AsOutRaw(a, b) == IF a.sg # b.sg /\ ~a.sg THEN Wrap(a.w, TRUE, a.raw) ELSE a.raw

\* Faulty variant of mul: the output takes the signedness of the left
\* operand, so $Uname * $Iname is computed and typed as unsigned.
mul_LeftSigned(a0, a1) ==
    Arith(Ty(a0.w, a0.sg, a0.b + a1.b, a0.s + a1.s), a0.raw * a1.raw)

\* Mul::mul, all four impls: the product of the (cast) raw values.
mul(a0, a1) == Arith(MulTy(a0, a1), AsOutRaw(a0, a1) * AsOutRaw(a1, a0))

\* Faulty variant of DivTy: the table's rule, one more bit when either operand is
\* signed.
DivTy_EitherSigned(a0, a1) ==
    Ty(a0.w, a0.sg \/ a1.sg, IF a0.sg \/ a1.sg THEN a0.b + 1 ELSE a0.b, a0.s - a1.s)

\* impl Div: $Name<B0 + SIGNED, S0 - S1> for equal signedness,
\* $Iname<B0, S0 - S1> for $Iname / $Uname and $Iname<B0 + 1, S0 - S1>
\* for $Uname / $Iname.
DivTy(a0, a1) ==
    IF a0.sg = a1.sg
    THEN Ty(a0.w, a0.sg, a0.b + (IF a0.sg THEN 1 ELSE 0), a0.s - a1.s)
    ELSE IF a0.sg
    THEN Ty(a0.w, TRUE, a0.b, a0.s - a1.s)
    ELSE Ty(a0.w, TRUE, a0.b + 1, a0.s - a1.s)

\* Div::div, all four impls: the quotient of the (cast) raw values.
div(a0, a1) == Quot(DivTy(a0, a1), AsOutRaw(a0, a1), AsOutRaw(a1, a0))

(* --------------------------- conversions ------------------------------- *)

\* Faulty variant of from_fp: the assertion on BITS is missing.
from_fp_NoBitsAssert(t, v) ==
    IF t.s # v.s \/ t.sg # v.sg THEN Fail("AssertFailed")
    ELSE IF ~InContainer(t.w, t.sg, v.raw) THEN Fail("UnwrapNone")
    ELSE Ok(new_unchecked(t, v.raw))

\* Fp::from_fp with Self = t: three assertions, then
\* new_unchecked(val.raw().try_into().ok().unwrap()).
from_fp(t, v) ==
    IF t.s # v.s THEN Fail("AssertFailed")
    ELSE IF ~(t.b >= v.b) THEN Fail("AssertFailed")
    ELSE IF t.sg # v.sg THEN Fail("AssertFailed")
    ELSE IF ~InContainer(t.w, t.sg, v.raw) THEN Fail("UnwrapNone")
    ELSE Ok(new_unchecked(t, v.raw))

\* Fp::into_fp: F::from_fp(self).
into_fp(v, t) == from_fp(t, v)

\* Fp::add_bits::<N>: Output<BITS + N, SHIFT>, the raw value unchanged.
AddBitsTy(v, k) == Ty(v.w, v.sg, v.b + k, v.s)

add_bits(v, k) == Ok(new_unchecked(AddBitsTy(v, k), v.raw))

\* Fp::set_bits::<N>: Output<N, SHIFT>::new(self.raw()).
SetBitsTy(v, k) == Ty(v.w, v.sg, k, v.s)

\* Faulty variant of set_bits: a value equal to the new type's MAX is rejected.
set_bits_StrictUpper(v, k) ==
    IF v.raw >= MAX(SetBitsTy(v, k)) /\ k > 0
    THEN Fail("TooLarge")
    ELSE new(SetBitsTy(v, k), v.raw)

set_bits(v, k) == new(SetBitsTy(v, k), v.raw)

\* Faulty variant of saturate: only the upper bound is clamped.
saturate_UpperOnly(v, k) ==
    LET r == new(SetBitsTy(v, k), v.raw)
    IN  IF r.kind = "TooLarge" THEN Ok(new_unchecked(SetBitsTy(v, k), MAX(SetBitsTy(v, k))))
        ELSE Ok(new_unchecked(SetBitsTy(v, k), v.raw))

\* Fp::saturate::<N>: Output::new(self.raw()), MIN or MAX on an error.
saturate(v, k) ==
    LET r == new(SetBitsTy(v, k), v.raw)
    IN  IF r.kind = "TooSmall" THEN Ok(new_unchecked(SetBitsTy(v, k), MIN(SetBitsTy(v, k))))
        ELSE IF r.kind = "TooLarge" THEN Ok(new_unchecked(SetBitsTy(v, k), MAX(SetBitsTy(v, k))))
        ELSE r

\* The outcomes of a primitive shift by k: a shift amount of the container's
\* width or more panics with overflow checks on and is masked with them off.
ShiftAmount(w, k) == IF k < w THEN {k} ELSE {0 - 1, k % w}

\* Fp::raw_shl::<N>: Output<BITS + N, SHIFT + N>, self.raw() << N.
RawShlTy(v, k) == Ty(v.w, v.sg, v.b + k, v.s + k)

raw_shl(v, k) ==
    {IF k2 < 0 THEN Fail("Overflow")
     ELSE Ok(new_unchecked(RawShlTy(v, k), Wrap(v.w, v.sg, v.raw * Pow2(k2))))
       : k2 \in ShiftAmount(v.w, k)}

\* Fp::raw_shr::<N>: Output<BITS - N, SHIFT - N>, self.raw() >> N.
RawShrTy(v, k) == Ty(v.w, v.sg, v.b - k, v.s - k)

raw_shr(v, k) ==
    {IF k2 < 0 THEN Fail("Overflow")
     ELSE Ok(new_unchecked(RawShrTy(v, k), Shr(v.raw, k2)))
       : k2 \in ShiftAmount(v.w, k)}

\* $Uname::into_signed: $Iname<B + 1, S>, self.raw() as the signed raw type.
IntoSignedTy(v) == Ty(v.w, TRUE, v.b + 1, v.s)

into_signed(v) == Ok(new_unchecked(IntoSignedTy(v), Wrap(v.w, TRUE, v.raw)))

\* $Iname::into_unsigned: None for a negative raw value, otherwise
\* into_unsigned_unchecked: $Uname<B - 1, S>, self.raw() as the unsigned type.
IntoUnsignedTy(v) == Ty(v.w, FALSE, v.b - 1, v.s)

\* Faulty variant of into_unsigned: a raw value of zero is refused as well.
into_unsigned_StrictPositive(v) ==
    IF v.raw > 0
    THEN Ok(new_unchecked(IntoUnsignedTy(v), Wrap(v.w, FALSE, v.raw)))
    ELSE Fail("None")

into_unsigned(v) ==
    IF v.raw >= 0
    THEN Ok(new_unchecked(IntoUnsignedTy(v), Wrap(v.w, FALSE, v.raw)))
    ELSE Fail("None")

(* -------------------------- mul_const / div_const ---------------------- *)

\* The number of bits of x >= 0 without its leading zeros.
RECURSIVE BitLen(_)
BitLen(x) == IF x <= 0 THEN 0 ELSE 1 + BitLen(x \div 2)

\* The bit pattern of x in a w-bit container, as an unsigned number.
BitsOf(w, x) == x % Pow2(w)

\* <$T>::leading_zeros and <$T>::leading_ones.
leading_zeros(w, x) == w - BitLen(BitsOf(w, x))

leading_ones(w, x) == w - BitLen(Pow2(w) - 1 - BitsOf(w, x))

\* Faulty variant of mul_const_bits: the literal is not decremented before
\* its leading bits are counted.
mul_const_bits_NoMinusOne(v, c) ==
    IF c = 0 THEN 0
    ELSE IF c < 0 THEN v.b + v.w - leading_ones(v.w, c)
    ELSE v.b + v.w - leading_zeros(v.w, c)

\* mul_const_bits(val) of $Name<BITS, SHIFT>, v being any value of the type.
mul_const_bits(v, c) ==
    IF c = 0 THEN 0
    ELSE IF c < 0 THEN v.b + v.w - leading_ones(v.w, Wrap(v.w, v.sg, c - 1))
    ELSE v.b + v.w - leading_zeros(v.w, c - 1)

\* mul_const::<VAL>: $Name<{ mul_const_bits(VAL) }, SHIFT>, self.raw() * VAL.
MulConstTy(v, c) == Ty(v.w, v.sg, mul_const_bits(v, c), v.s)

mul_const(v, c) == Arith(MulConstTy(v, c), v.raw * c)

(* ------------------------------ floats --------------------------------- *)

\* A float is modelled by its exact value, an integer count of units of
\* 2^-FracBits, together with the number of significand bits of its format.
\* FracBits leaves one bit below the finest raw unit of any type of the model,
\* so that values between two neighbouring raw values exist.
FracBits == MaxShift + 1

\* Significand widths.  In the crate f32 (24 bits) is exact for the 8- and
\* 16-bit containers only and f64 (53 bits) for those up to 32 bits; both are
\* narrower than the widest containers.  The scaled formats keep that order:
\* each is narrower than the widest container of the model.
F32Mant == MaxBits - 2

F64Mant == MaxBits - 1

\* f32::MAX_EXP and f64::MAX_EXP.
F32_MAX_EXP == 128

F64_MAX_EXP == 1024

\* Integer-to-float conversion (`as f32`, `as f64`): x rounded to p
\* significant bits, to nearest, ties to the even significand.
RoundTo(p, x) ==
    LET a  == IF x < 0 THEN 0 - x ELSE x
        q  == IF BitLen(a) > p THEN Pow2(BitLen(a) - p) ELSE 1
        lo == (a \div q) * q
        r  == a - lo
        up == IF 2 * r > q THEN TRUE
              ELSE IF 2 * r < q THEN FALSE
              ELSE (a \div q) % 2 = 1
        m  == IF up THEN lo + q ELSE lo
    IN  IF x < 0 THEN 0 - m ELSE m

\* The values a float format of p significand bits holds.
Representable(p, m) == RoundTo(p, m) = m

\* self.0 as float / 2.powi(SHIFT): the conversion rounds, the division by a
\* power of two is exact.
IntoFloat(p, v) == RoundTo(p, v.raw) * Pow2(FracBits - v.s)

\* into_f32 / into_f64 of $Name<BITS, SHIFT>, past their assertion.
into_f32(v) == IntoFloat(F32Mant, v)

into_f64(v) == IntoFloat(F64Mant, v)

\* The assertion of into_f32 / into_f64: the logical value fits the format.
IntoFloatAssert(t, maxExp) == t.b - t.s - (IF t.sg THEN 1 ELSE 0) <= maxExp

\* (val * 2.powi(SHIFT)) as $T: the product is exact, the cast truncates
\* toward zero and saturates at the bounds of the container.
FloatAsRaw(t, m) ==
    LET x == TruncDiv(m, Pow2(FracBits - t.s))
    IN  IF x < TMin(t.w, t.sg) THEN TMin(t.w, t.sg)
        ELSE IF x > TMax(t.w, t.sg) THEN TMax(t.w, t.sg)
        ELSE x

\* from_f32_unchecked / from_f64_unchecked.
from_f32_unchecked(t, m) == new_unchecked(t, FloatAsRaw(t, m))

from_f64_unchecked(t, m) == new_unchecked(t, FloatAsRaw(t, m))

\* Fp::from_f32: TooSmall below MIN.into_f32(), TooLarge above
\* MAX.into_f32(), otherwise from_f32_unchecked.
from_f32(t, m) ==
    IF ~IntoFloatAssert(t, F32_MAX_EXP) THEN Fail("AssertFailed")
    ELSE IF m < into_f32(new_unchecked(t, MIN(t))) THEN Fail("TooSmall")
    ELSE IF m > into_f32(new_unchecked(t, MAX(t))) THEN Fail("TooLarge")
    ELSE Ok(from_f32_unchecked(t, m))

\* Fp::from_f64, the same over f64.
from_f64(t, m) ==
    IF ~IntoFloatAssert(t, F64_MAX_EXP) THEN Fail("AssertFailed")
    ELSE IF m < into_f64(new_unchecked(t, MIN(t))) THEN Fail("TooSmall")
    ELSE IF m > into_f64(new_unchecked(t, MAX(t))) THEN Fail("TooLarge")
    ELSE Ok(from_f64_unchecked(t, m))

\* The finite floats of p significand bits given to a constructor of type t:
\* from one raw unit below the container to one raw unit above it.
FloatInputs(p, t) ==
    {m \in ((TMin(t.w, t.sg) - 1) * Pow2(FracBits - t.s))
               ..((TMax(t.w, t.sg) + 1) * Pow2(FracBits - t.s)) :
        Representable(p, m)}

\* Fp::logical_shl::<N>: Output<BITS, SHIFT - N>, the raw value unchanged.
LogicalShlTy(v, k) == Ty(v.w, v.sg, v.b, v.s - k)

logical_shl(v, k) == Ok(new_unchecked(LogicalShlTy(v, k), v.raw))

\* Fp::logical_shr::<N>: Output<BITS, SHIFT + N>, the raw value unchanged.
LogicalShrTy(v, k) == Ty(v.w, v.sg, v.b, v.s + k)

logical_shr(v, k) == Ok(new_unchecked(LogicalShrTy(v, k), v.raw))

\* div_const_bits(val) of $Name<BITS, SHIFT> for val # 0, v being any value
\* of the type: 1 + BITS - (<$T>::BITS - leading bits of val), as an integer;
\* a negative number stands for a u32 subtraction that underflows.
div_const_bits(v, c) ==
    IF c < 0 THEN 1 + v.b - (v.w - leading_ones(v.w, c))
    ELSE 1 + v.b - (v.w - leading_zeros(v.w, c))

\* div_const::<VAL>: $Name<{ div_const_bits(VAL) }, SHIFT>, self.raw() / VAL.
DivConstTy(v, c) == Ty(v.w, v.sg, div_const_bits(v, c), v.s)

\* The outcomes of div_const::<VAL>.  The type is computed while compiling:
\* VAL == 0 panics with "divide by 0"; an underflowing subtraction is an
\* evaluation error with overflow checks on and wraps to a bit-width above
\* <$T>::BITS with them off, which the BITS assertion refuses, as it refuses
\* every bit-width above <$T>::BITS.  Otherwise the division is performed.
div_const(v, c) ==
    IF c = 0 THEN {Fail("DivideBy0")}
    ELSE IF div_const_bits(v, c) < 0 THEN {Fail("SubtractOverflow"), Fail("TooManyBits")}
    ELSE IF div_const_bits(v, c) > v.w THEN {Fail("TooManyBits")}
    ELSE Quot(DivConstTy(v, c), v.raw, c)

(* ------------------------------ actions -------------------------------- *)

Ready == op = "none"

Init ==
    /\ val = NoVal
    /\ op = "none"
    /\ other = NoVal
    /\ n = 0
    /\ res = NoRes

\* T::new(x) for any type of the model and any x of its raw container.
New ==
    /\ Ready
    /\ val = NoVal
    /\ \E t \in ValidTypes :
       \E x \in TMin(t.w, t.sg)..TMax(t.w, t.sg) :
          /\ op' = "new"
          /\ other' = new_unchecked(t, x)
          /\ res' = new(t, x)
    /\ UNCHANGED <<val, n>>


\* The values an expression can name as its second operand: the values the
\* checked constructor accepts.
Operands == UNION {{new_unchecked(t, x) : x \in MIN(t)..MAX(t)} : t \in ValidTypes}

HasVal == Ready /\ val # NoVal

\* val + a1: same $Name and same S; the output type must compile.
Add ==
    /\ HasVal
    /\ \E a1 \in Operands :
          /\ a1.w = val.w /\ a1.sg = val.sg /\ a1.s = val.s
          /\ ValidTy(AddTy(val, a1))
          /\ op' = "add"
          /\ other' = a1
          /\ res' = add(val, a1)
    /\ UNCHANGED <<val, n>>

\* val - a1.
Sub ==
    /\ HasVal
    /\ \E a1 \in Operands :
          /\ a1.w = val.w /\ a1.sg = val.sg /\ a1.s = val.s
          /\ ValidTy(SubTy(val, a1))
          /\ op' = "sub"
          /\ other' = a1
          /\ res' = sub(val, a1)
    /\ UNCHANGED <<val, n>>

\* -val.
Neg ==
    /\ HasVal
    /\ ValidTy(NegTy(val))
    /\ op' = "neg"
    /\ res' \in neg(val)
    /\ UNCHANGED <<val, other, n>>

\* val * a1: the same raw width, any two signednesses.
Mul ==
    /\ HasVal
    /\ \E a1 \in Operands :
          /\ a1.w = val.w
          /\ ValidTy(MulTy(val, a1))
          /\ op' = "mul"
          /\ other' = a1
          /\ res' \in mul(val, a1)
    /\ UNCHANGED <<val, n>>

\* val / a1: the same raw width, any two signednesses.
Div ==
    /\ HasVal
    /\ \E a1 \in Operands :
          /\ a1.w = val.w
          /\ ValidTy(DivTy(val, a1))
          /\ op' = "div"
          /\ other' = a1
          /\ res' \in div(val, a1)
    /\ UNCHANGED <<val, n>>

\* T::from_fp(val), also val.into_fp::<_, T>(), for any type T of the model.
FromFp ==
    /\ HasVal
    /\ \E t \in ValidTypes :
          /\ op' = "from_fp"
          /\ other' = new_unchecked(t, 0)
          /\ res' = from_fp(t, val)
    /\ UNCHANGED <<val, n>>

\* val.add_bits::<k>().
AddBits ==
    /\ HasVal
    /\ \E k \in 0..MaxBits :
          /\ ValidTy(AddBitsTy(val, k))
          /\ op' = "add_bits"
          /\ n' = k
          /\ res' = add_bits(val, k)
    /\ UNCHANGED <<val, other>>

\* val.set_bits::<k>().
SetBits ==
    /\ HasVal
    /\ \E k \in 0..MaxBits :
          /\ ValidTy(SetBitsTy(val, k))
          /\ op' = "set_bits"
          /\ n' = k
          /\ res' = set_bits(val, k)
    /\ UNCHANGED <<val, other>>

\* val.saturate::<k>().
Saturate ==
    /\ HasVal
    /\ \E k \in 0..MaxBits :
          /\ ValidTy(SetBitsTy(val, k))
          /\ op' = "saturate"
          /\ n' = k
          /\ res' = saturate(val, k)
    /\ UNCHANGED <<val, other>>

\* val.raw_shl::<k>().
RawShl ==
    /\ HasVal
    /\ \E k \in 0..MaxBits :
          /\ ValidTy(RawShlTy(val, k))
          /\ op' = "raw_shl"
          /\ n' = k
          /\ res' \in raw_shl(val, k)
    /\ UNCHANGED <<val, other>>

\* val.raw_shr::<k>().
RawShr ==
    /\ HasVal
    /\ \E k \in 0..MaxBits :
          /\ ValidTy(RawShrTy(val, k))
          /\ op' = "raw_shr"
          /\ n' = k
          /\ res' \in raw_shr(val, k)
    /\ UNCHANGED <<val, other>>

\* val.into_signed(), defined on the unsigned types.
IntoSigned ==
    /\ HasVal
    /\ ~val.sg
    /\ ValidTy(IntoSignedTy(val))
    /\ op' = "into_signed"
    /\ res' = into_signed(val)
    /\ UNCHANGED <<val, other, n>>

\* val.into_unsigned(), defined on the signed types.
IntoUnsigned ==
    /\ HasVal
    /\ val.sg
    /\ ValidTy(IntoUnsignedTy(val))
    /\ op' = "into_unsigned"
    /\ res' = into_unsigned(val)
    /\ UNCHANGED <<val, other, n>>

\* val.mul_const::<c>() for any literal c of the raw type.
MulConst ==
    /\ HasVal
    /\ \E c \in TMin(val.w, val.sg)..TMax(val.w, val.sg) :
          /\ ValidTy(MulConstTy(val, c))
          /\ op' = "mul_const"
          /\ n' = c
          /\ res' \in mul_const(val, c)
    /\ UNCHANGED <<val, other>>

\* T::from_f32(m) for any type of the model and any f32 around its range.
FromF32 ==
    /\ Ready
    /\ val = NoVal
    /\ \E t \in ValidTypes :
       \E m \in FloatInputs(F32Mant, t) :
          /\ op' = "from_f32"
          /\ other' = new_unchecked(t, 0)
          /\ n' = m
          /\ res' = from_f32(t, m)
    /\ UNCHANGED val

\* T::from_f64(m) for any type of the model and any f64 around its range.
FromF64 ==
    /\ Ready
    /\ val = NoVal
    /\ \E t \in ValidTypes :
       \E m \in FloatInputs(F64Mant, t) :
          /\ op' = "from_f64"
          /\ other' = new_unchecked(t, 0)
          /\ n' = m
          /\ res' = from_f64(t, m)
    /\ UNCHANGED val

\* val.logical_shl::<k>(), k of either sign.
LogicalShl ==
    /\ HasVal
    /\ \E k \in Shifts :
          /\ op' = "logical_shl"
          /\ n' = k
          /\ res' = logical_shl(val, k)
    /\ UNCHANGED <<val, other>>

\* val.logical_shr::<k>(), k of either sign.
LogicalShr ==
    /\ HasVal
    /\ \E k \in Shifts :
          /\ op' = "logical_shr"
          /\ n' = k
          /\ res' = logical_shr(val, k)
    /\ UNCHANGED <<val, other>>

\* val.div_const::<c>() for any literal c of the raw type.
DivConst ==
    /\ HasVal
    /\ \E c \in TMin(val.w, val.sg)..TMax(val.w, val.sg) :
          /\ op' = "div_const"
          /\ n' = c
          /\ res' \in div_const(val, c)
    /\ UNCHANGED <<val, other>>

\* let x = <expression>: the value just produced becomes the operand of the
\* next operation.
Bind ==
    /\ op # "none"
    /\ res.kind = "Ok"
    /\ res.v.s \in Shifts
    /\ val' = res.v
    /\ op' = "none"
    /\ other' = NoVal
    /\ n' = 0
    /\ res' = NoRes

Next ==
    \/ New
    \/ Add
    \/ Sub
    \/ Neg
    \/ Mul
    \/ Div
    \/ FromFp
    \/ AddBits
    \/ SetBits
    \/ Saturate
    \/ RawShl
    \/ RawShr
    \/ IntoSigned
    \/ IntoUnsigned
    \/ MulConst
    \/ FromF32
    \/ FromF64
    \/ LogicalShl
    \/ LogicalShr
    \/ DivConst
    \/ Bind

Spec == Init /\ [][Next]_vars

(* ------------------------- reference bounds ---------------------------- *)

\* The bounds of a type in closed form: -2^(B-1) .. 2^(B-1) - 1 signed,
\* 0 .. 2^B - 1 unsigned, 0 .. 0 when B = 0.
RefMin(t) == IF t.b = 0 \/ ~t.sg THEN 0 ELSE 0 - Pow2(t.b - 1)

RefMax(t) == IF t.b = 0 THEN 0 ELSE IF t.sg THEN Pow2(t.b - 1) - 1 ELSE Pow2(t.b) - 1

RefInRange(v) == v.b <= v.w /\ RefMin(TypeOf(v)) <= v.raw /\ v.raw <= RefMax(TypeOf(v))

Larger(x, y) == IF x >= y THEN x ELSE y

(* ------------------------------ claims --------------------------------- *)

\* C1: every value reachable from new through the safe operations has
\* B <= W and MIN <= raw <= MAX for its type; B = 0 implies raw = 0.
C1_TypeInvariant ==
    \A v \in {val} \cup (IF res.kind = "Ok" THEN {res.v} ELSE {}) :
        /\ RefInRange(v)
        /\ (v.b = 0 => v.raw = 0)

\* C2: new(raw) is Err(TooSmall) exactly when raw < MIN, Err(TooLarge)
\* exactly when raw > MAX, and otherwise Ok with the raw value unchanged;
\* so new(MIN - 1) and new(MAX + 1) fail and new(MIN), new(MAX) succeed.
C2_NewChecked ==
    op = "new" =>
        LET t == TypeOf(other)
            x == other.raw
        IN  /\ (res.kind = "TooSmall") = (x < RefMin(t))
            /\ (res.kind = "TooLarge") = (x > RefMax(t))
            /\ (RefMin(t) <= x /\ x <= RefMax(t)) => res = Ok(other)
            /\ x = RefMin(t) - 1 => res.kind = "TooSmall"
            /\ x = RefMax(t) + 1 => res.kind = "TooLarge"
            /\ x \in {RefMin(t), RefMax(t)} => res.kind = "Ok" /\ res.v.raw = x

\* C2 witness: new(MAX + 1) on a signed 2-bit type was rejected as TooLarge.
C2_Witness ==
    /\ op = "new"
    /\ other.sg /\ other.b = 2 /\ other.raw = 2
    /\ res.kind = "TooLarge"

\* C3: MIN and MAX are -2^(B-1) and 2^(B-1) - 1 for signed types with
\* B >= 1, 0 and 2^B - 1 for unsigned types with B >= 1, both 0 when B = 0,
\* whatever the shift (U16 B=16: 0/65535, I16 B=16: -32768/32767).
C3_MinMax ==
    op = "new" =>
        LET t == TypeOf(other)
        IN  /\ MIN(t) = RefMin(t)
            /\ MAX(t) = RefMax(t)
            /\ \A s2 \in Shifts :
                  /\ MIN(Ty(t.w, t.sg, t.b, s2)) = MIN(t)
                  /\ MAX(Ty(t.w, t.sg, t.b, s2)) = MAX(t)
            /\ MIN(Ty(16, FALSE, 16, 0 - 5)) = 0
            /\ MAX(Ty(16, FALSE, 16, 0 - 5)) = 65535
            /\ MIN(Ty(16, TRUE, 16, 0)) = 0 - 32768
            /\ MAX(Ty(16, TRUE, 16, 0)) = 32767
            /\ MIN(Ty(16, TRUE, 8, 0 - 2)) = 0 - 128
            /\ MAX(Ty(16, TRUE, 8, 0 - 2)) = 127
            /\ MIN(Ty(16, TRUE, 0, 10)) = 0
            /\ MAX(Ty(16, TRUE, 0, 10)) = 0

\* C3 witness: a constructor ran on a signed 3-bit type of nonzero shift.
C3_Witness ==
    /\ op = "new"
    /\ other.sg /\ other.b = 3 /\ other.s = 0 - 1
    /\ other.raw = 0 - 4
    /\ res.kind = "Ok"

\* C4: for in-range operands of the same raw type and shift with
\* max(B0,B1)+1 <= W, (a0 + a1).raw() is the exact sum, of bit-width
\* max(B0,B1)+1, the same shift and signedness, within the output's range.
C4_AddExact ==
    (op = "add" /\ RefInRange(val) /\ RefInRange(other)) =>
        /\ res.kind = "Ok"
        /\ res.v.raw = val.raw + other.raw
        /\ res.v.b = Larger(val.b, other.b) + 1
        /\ res.v.b <= res.v.w
        /\ res.v.s = val.s /\ res.v.sg = val.sg /\ res.v.w = val.w
        /\ RefInRange(res.v)

\* C4 witness: the two largest unsigned values of W-1 bits were added.
C4_Witness ==
    /\ op = "add"
    /\ ~val.sg /\ val.w = MaxBits /\ val.b = MaxBits - 1 /\ other.b = MaxBits - 1
    /\ val.raw = Pow2(MaxBits - 1) - 1 /\ other.raw = val.raw
    /\ res.kind = "Ok" /\ res.v.raw = 2 * val.raw

\* C5: a0 - a1 is signed with max(B0,B1)+1 bits and -a0 is signed with
\* B+1 bits, for signed and unsigned operands; the raw result is the exact
\* difference / negation and lies within the signed output's range.
C5_SubNegExact ==
    /\ (op = "sub" /\ RefInRange(val) /\ RefInRange(other)) =>
          /\ res.kind = "Ok"
          /\ res.v.raw = val.raw - other.raw
          /\ res.v.sg
          /\ res.v.b = Larger(val.b, other.b) + 1
          /\ res.v.s = val.s /\ res.v.w = val.w
          /\ RefInRange(res.v)
    /\ (op = "neg" /\ RefInRange(val)) =>
          /\ res.kind = "Ok"
          /\ res.v.raw = 0 - val.raw
          /\ res.v.sg
          /\ res.v.b = val.b + 1
          /\ res.v.s = val.s /\ res.v.w = val.w
          /\ RefInRange(res.v)

\* C5 witness: an unsigned subtraction went below zero.
C5_Witness ==
    /\ op = "sub"
    /\ ~val.sg /\ val.w = MaxBits /\ val.raw = 0
    /\ other.raw = Pow2(MaxBits - 1) - 1
    /\ res.kind = "Ok" /\ res.v.raw = 0 - other.raw

\* The product and its output shape, as C6 states them.
MulClosed ==
    /\ res.kind = "Ok"
    /\ res.v.raw = val.raw * other.raw
    /\ res.v.b = val.b + other.b
    /\ res.v.s = val.s + other.s
    /\ res.v.sg = (val.sg \/ other.sg)
    /\ res.v.w = val.w
    /\ RefInRange(res.v)

\* C6 as stated: for in-range operands with B0 + B1 <= W, in all four
\* signedness combinations, the product is exact, no operand is changed by
\* the unsigned-to-signed cast, the output has B0+B1 bits and shift S0+S1,
\* is signed iff either operand is, and lies within its range.
C6_MulAsStated ==
    (op = "mul" /\ RefInRange(val) /\ RefInRange(other)) =>
        /\ MulClosed
        /\ AsOutRaw(val, other) = val.raw
        /\ AsOutRaw(other, val) = other.raw

\* C6 amended: the product is exact and within range in all four
\* combinations; the cast leaves an unsigned operand unchanged whenever the
\* signed operand has at least one bit, and changes it only when the
\* unsigned operand fills the container, the signed one is the 0-bit zero
\* and the product is 0.
C6_MulExact ==
    (op = "mul" /\ RefInRange(val) /\ RefInRange(other)) =>
        /\ MulClosed
        /\ other.b >= 1 => AsOutRaw(val, other) = val.raw
        /\ val.b >= 1 => AsOutRaw(other, val) = other.raw
        /\ AsOutRaw(val, other) # val.raw =>
              ~val.sg /\ val.b = val.w /\ other.b = 0 /\ res.v.raw = 0
        /\ AsOutRaw(other, val) # other.raw =>
              ~other.sg /\ other.b = other.w /\ val.b = 0 /\ res.v.raw = 0

\* C6 witness: the signed minimum times the unsigned maximum, B0 + B1 = W.
C6_Witness ==
    /\ op = "mul"
    /\ val.sg /\ ~other.sg /\ val.w = MaxBits
    /\ val.b = 2 /\ other.b = MaxBits - 2
    /\ val.raw = 0 - 2 /\ other.raw = Pow2(MaxBits - 2) - 1
    /\ res.kind = "Ok" /\ res.v.raw = val.raw * other.raw

\* C7 as stated: the quotient type has B0 + 1 bits if either operand is
\* signed and B0 bits if both are unsigned, shift S0 - S1, and is signed
\* iff either operand is signed.
C7_DivShapeAsStated ==
    (op = "div" /\ res.kind = "Ok") =>
        /\ res.v.b = val.b + (IF val.sg \/ other.sg THEN 1 ELSE 0)
        /\ res.v.s = val.s - other.s
        /\ res.v.sg = (val.sg \/ other.sg)

\* C7 amended: the quotient type has B0 + 1 bits if the divisor is signed
\* (signed/signed, unsigned/signed) and B0 bits if the divisor is unsigned
\* (signed/unsigned, unsigned/unsigned), shift S0 - S1, and is signed iff
\* either operand is signed.
C7_DivShape ==
    (op = "div" /\ res.kind = "Ok") =>
        /\ res.v.b = val.b + (IF other.sg THEN 1 ELSE 0)
        /\ res.v.s = val.s - other.s
        /\ res.v.sg = (val.sg \/ other.sg)
        /\ res.v.w = val.w

\* C7 witness: a signed dividend was divided by an unsigned divisor and the
\* quotient kept the dividend's bit-width.
C7_Witness ==
    /\ op = "div"
    /\ val.sg /\ ~other.sg /\ val.b = 2 /\ val.raw = 0 - 2 /\ other.raw = 1
    /\ res.kind = "Ok" /\ res.v.sg /\ res.v.b = 2 /\ res.v.raw = 0 - 2

\* C8: for in-range operands and a nonzero divisor, in all four signedness
\* combinations, a0 / a1 completes, is the quotient truncated toward zero
\* and lies within the range of the output type.
C8_DivClosed ==
    (op = "div" /\ RefInRange(val) /\ RefInRange(other) /\ other.raw # 0) =>
        /\ res.kind = "Ok"
        /\ res.v.raw = TruncDiv(val.raw, other.raw)
        /\ RefInRange(res.v)

\* C9: from_fp / into_fp yields a value iff the shifts are equal, the
\* signedness is equal and Bd >= Bs, and fails an assertion otherwise; when
\* it yields a value the container conversion does not fail and the
\* destination raw equals the source raw, within the destination's range.
\* A primitive integer is the type with B = W and shift 0.
C9_FromFp ==
    (op = "from_fp" /\ RefInRange(val)) =>
        LET t == TypeOf(other)
            fits == t.s = val.s /\ t.sg = val.sg /\ t.b >= val.b
        IN  /\ (res.kind = "Ok") = fits
            /\ ~fits => res.kind = "AssertFailed"
            /\ res.kind # "UnwrapNone"
            /\ fits => /\ res.v.raw = val.raw
                       /\ TypeOf(res.v) = t
                       /\ RefInRange(res.v)
            /\ into_fp(val, t) = res

\* C9 witness: a negative value moved to a narrower container with more
\* bits.
C9_Witness ==
    /\ op = "from_fp"
    /\ val.w = MaxBits /\ val.sg /\ val.b = 2 /\ val.raw = 0 - 2
    /\ other.w = MaxBits - 1 /\ other.b = 3
    /\ res.kind = "Ok" /\ res.v.raw = 0 - 2 /\ res.v.w = MaxBits - 1

\* C10: a B-bit value converted up to a wider bit-width of the same shift
\* and signedness (from_fp, add_bits) and then back to the original B-bit
\* type (set_bits::<B>, then into_fp into the original container) is the
\* original value.
C10_RoundTrip ==
    (op \in {"from_fp", "add_bits"} /\ RefInRange(val) /\ res.kind = "Ok"
       /\ res.v.b > val.b) =>
        LET back == set_bits(res.v, val.b)
        IN  /\ back.kind = "Ok"
            /\ into_fp(back.v, TypeOf(val)) = Ok(val)

\* C10 witness: the largest 2-bit signed value went up to 3 bits in the
\* other container.
C10_Witness ==
    /\ op = "from_fp"
    /\ val.sg /\ val.b = 2 /\ val.raw = 1 /\ val.w = MaxBits
    /\ res.kind = "Ok" /\ res.v.b = 3 /\ res.v.w = MaxBits - 1

\* The smallest k with 2^k >= x, for x >= 1.
CeilLog2(x) ==
    CHOOSE k \in 0..(MaxBits + 1) : Pow2(k) >= x /\ (k = 0 \/ Pow2(k - 1) < x)

\* The number of leading one bits of the w-bit pattern of x.
LeadOnesRef(w, x) ==
    CHOOSE k \in 0..w :
        /\ x % Pow2(w) >= Pow2(w) - Pow2(w - k)
        /\ (k = w \/ x % Pow2(w) < Pow2(w) - Pow2(w - k - 1))

\* C11: mul_const::<VAL> returns raw * VAL exactly, with the shift
\* unchanged, in a type of 0 bits for VAL = 0, B + ceil(log2(VAL)) bits for
\* VAL > 0 and B + W - leading_ones(VAL - 1) bits for VAL < 0; the product
\* lies within the range of that type.
C11_MulConst ==
    (op = "mul_const" /\ RefInRange(val)) =>
        /\ res.kind = "Ok"
        /\ res.v.raw = val.raw * n
        /\ res.v.s = val.s /\ res.v.sg = val.sg /\ res.v.w = val.w
        /\ n = 0 => res.v.b = 0
        /\ n > 0 => res.v.b = val.b + CeilLog2(n)
        /\ n < 0 => res.v.b = val.b + val.w - LeadOnesRef(val.w, n - 1)
        /\ n = 1 => res.v.b = val.b
        /\ n = 4 => res.v.b = val.b + 2
        /\ n = 5 => res.v.b = val.b + 3
        /\ RefInRange(res.v)

\* C11 witness: the 1-bit signed value -1 was multiplied by the literal 5.
C11_Witness ==
    /\ op = "mul_const"
    /\ val.sg /\ val.b = 1 /\ val.raw = 0 - 1 /\ n = 5
    /\ res.kind = "Ok" /\ res.v.raw = 0 - 5 /\ res.v.b = 4

\* C12: saturate::<N> never fails; its result has N bits, the input's shift
\* and raw == min(max(raw, MIN_N), MAX_N), which is the input's raw whenever
\* set_bits::<N> succeeds; saturating a second time changes nothing.
C12_Saturate ==
    (op = "saturate") =>
        LET t  == Ty(val.w, val.sg, n, val.s)
            lo == RefMin(t)
            hi == RefMax(t)
        IN  /\ res.kind = "Ok"
            /\ TypeOf(res.v) = t
            /\ res.v.raw = Larger(lo, 0 - Larger(0 - val.raw, 0 - hi))
            /\ set_bits(val, n).kind = "Ok" => res.v.raw = val.raw
            /\ val.raw < lo => res.v.raw = lo
            /\ val.raw > hi => res.v.raw = hi
            /\ saturate(res.v, n) = res

\* C12 witness: a negative raw was clamped up to the MIN of a narrower type.
C12_Witness ==
    /\ op = "saturate"
    /\ RefInRange(val)
    /\ set_bits(val, n).kind = "TooSmall"
    /\ res.kind = "Ok" /\ res.v.raw > val.raw /\ res.v.raw < 0

\* C13: into_unsigned on an in-range signed value returns Some of the
\* unsigned (B-1)-bit value with the same raw and shift, itself in range,
\* exactly when the raw is not negative, and None otherwise; into_signed on
\* an in-range unsigned value always gives the signed (B+1)-bit value with
\* the same raw, and into_unsigned brings it back to the original.
C13_SignTransforms ==
    /\ (op = "into_unsigned" /\ RefInRange(val)) =>
          IF val.raw >= 0
          THEN /\ res.kind = "Ok"
               /\ TypeOf(res.v) = Ty(val.w, FALSE, val.b - 1, val.s)
               /\ res.v.raw = val.raw
               /\ RefInRange(res.v)
          ELSE res.kind = "None"
    /\ (op = "into_signed" /\ RefInRange(val)) =>
          /\ res.kind = "Ok"
          /\ TypeOf(res.v) = Ty(val.w, TRUE, val.b + 1, val.s)
          /\ res.v.raw = val.raw
          /\ RefInRange(res.v)
          /\ into_unsigned(res.v) = Ok(val)

\* C13 witness: the unsigned 2-bit value 3 became a signed 3-bit value that
\* into_unsigned takes back to the original.
C13_Witness ==
    /\ op = "into_signed"
    /\ val.b = 2 /\ val.raw = 3
    /\ res.kind = "Ok" /\ res.v.sg /\ res.v.b = 3 /\ res.v.raw = 3
    /\ into_unsigned(res.v) = Ok(val)

\* What C14 says of a float constructor's result r for the type t and the
\* float m: equal to new(x) and to x.logical_shr::<S>().set_bits::<B>() of
\* the primitive integer x when m is x / 2^S for an x within [MIN, MAX];
\* TooSmall / TooLarge when m is below MIN's / above MAX's logical value;
\* otherwise Ok with raw == m * 2^S truncated toward zero.
FloatAsStated(t, m, r) ==
    LET scale == Pow2(FracBits - t.s)
        prim  == Ty(t.w, t.sg, t.w, 0)
    IN  /\ \A x \in RefMin(t)..RefMax(t) :
              m = x * scale =>
                 /\ r = new(t, x)
                 /\ r = set_bits(logical_shr(new_unchecked(prim, x), t.s).v, t.b)
        /\ m < RefMin(t) * scale => r.kind = "TooSmall"
        /\ m > RefMax(t) * scale => r.kind = "TooLarge"
        /\ (RefMin(t) * scale <= m /\ m <= RefMax(t) * scale) =>
              /\ r.kind = "Ok"
              /\ TypeOf(r.v) = t
              /\ r.v.raw = TruncDiv(m, scale)

\* C14: from_f32(r / 2^S), from_f64(r / 2^S), new(r) and the primitive r
\* taken through logical_shr::<S>().set_bits::<B>() give equal values for
\* MIN <= r <= MAX; for other logical values the float constructors truncate
\* v * 2^S toward zero, and they return TooSmall / TooLarge when v is below
\* MIN's / above MAX's logical value.
C14_ConstructorAgreement ==
    /\ op = "from_f32" =>
          /\ FloatAsStated(TypeOf(other), n, res)
          /\ FloatAsStated(TypeOf(other), n, from_f64(TypeOf(other), n))
    /\ op = "from_f64" => FloatAsStated(TypeOf(other), n, res)

\* C15: raw_shr::<N> with N <= B on an in-range value returns the raw
\* shifted right by N in B-N bits with shift S-N, within the range of that
\* type, N == B included; raw_shl::<N> with B+N <= W returns raw * 2^N in
\* B+N bits with shift S+N, within range, the logical value unchanged.
C15_RawShift ==
    /\ (op = "raw_shr" /\ RefInRange(val) /\ n <= val.b) =>
          /\ res.kind = "Ok"
          /\ TypeOf(res.v) = Ty(val.w, val.sg, val.b - n, val.s - n)
          /\ res.v.raw = val.raw \div Pow2(n)
          /\ RefInRange(res.v)
    /\ (op = "raw_shl" /\ RefInRange(val) /\ val.b + n <= val.w) =>
          /\ res.kind = "Ok"
          /\ TypeOf(res.v) = Ty(val.w, val.sg, val.b + n, val.s + n)
          /\ res.v.raw = val.raw * Pow2(n)
          /\ RefInRange(res.v)
          /\ res.v.raw * Pow2(val.s + MaxShift) = val.raw * Pow2(res.v.s + MaxShift)

\* C16: for every nonzero literal VAL of the raw type div_const_bits(VAL),
\* 1 + B - (W - leading_zeros(VAL)) for VAL > 0 and
\* 1 + B - (W - leading_ones(VAL)) for VAL < 0, is a bit-width in 0..=W, and
\* div_const::<VAL> on an in-range value returns raw / VAL truncated toward
\* zero with the shift unchanged, within the range of the output type;
\* VAL == 0 is rejected with "divide by 0".
C16_DivConst ==
    (op = "div_const" /\ RefInRange(val)) =>
        IF n = 0 THEN res.kind = "DivideBy0"
        ELSE /\ res.kind = "Ok"
             /\ n > 0 => res.v.b = 1 + val.b - (val.w - LeadOnesRef(val.w, (0 - 1) - n))
             /\ n < 0 => res.v.b = 1 + val.b - (val.w - LeadOnesRef(val.w, n))
             /\ res.v.b \in 0..val.w
             /\ res.v.s = val.s /\ res.v.sg = val.sg /\ res.v.w = val.w
             /\ res.v.raw = TruncDiv(val.raw, n)
             /\ RefInRange(res.v)

====
